---------------------------- MODULE Spec2Model ----------------------------
(***************************************************************************)
(* Model of the MCP server of GoHighLevel-MCP-V3: the JSON-RPC dispatcher  *)
(* (processJsonRpcMessage and its handlers), the POST /sse handler that    *)
(* feeds it, and the GET /sse connection with its three timers.            *)
(*                                                                         *)
(* JavaScript values are encoded as strings with a type prefix ("s:2.0" is *)
(* the string "2.0", "n:2" the number 2), "undefined" is an absent         *)
(* property and "null" is null.  Structured values are records with a tag  *)
(* t in {"undefined", "null", "prim", "obj"}: reading a property of a      *)
(* "prim" gives undefined, reading a property of "null" or "undefined"     *)
(* throws a TypeError.                                                     *)
(***************************************************************************)
EXTENDS Integers, Sequences, FiniteSets, TLC

VARIABLES
    postSt,       \* POST /sse: "idle", "answered" (close timer armed), "ended"
    postBody,     \* POST /sse: the body of the request being served
    postOut,      \* POST /sse: the frames written to the response stream
    lastHandler,  \* the handle* function processJsonRpcMessage called, or "none"
    lastThrew,    \* whether processJsonRpcMessage let an exception escape
    sse,          \* GET /sse: the state of every connection
    rest,         \* POST /api/genai/tools/{name}: the exchange being served
    ghl,          \* GHLMCPServer: its groups' extra descriptor, request, response
    ghlSse,       \* GHLMCPServer: the open SSE connections, the Server's transport
    registry,     \* the module-level array TOOLS of the handler
    http,         \* the request being classified and what was sent for it
    postSeen      \* history: the handle* functions earlier POSTs have run

vars ==
    <<postSt, postBody, postOut, lastHandler, lastThrew, sse, rest, ghl, ghlSse,
      registry, http, postSeen>>

postVars == <<postSt, postBody, postOut, lastHandler, lastThrew>>

\* what the POST /sse handler leaves alone
nonPostVars == <<sse, rest, ghl, ghlSse, registry, http, postSeen>>

\* what the GET /sse handler and its callbacks leave alone
nonSseVars == <<postVars, rest, ghl, ghlSse, registry, http, postSeen>>

\* what the REST execution handler leaves alone
nonRestVars == <<postVars, sse, ghl, ghlSse, registry, http, postSeen>>

\* what the handlers of GHLMCPServer leave alone
nonGhlVars == <<postVars, sse, rest, ghlSse, registry, http, postSeen>>

\* what the GET /sse route of GHLMCPServer leaves alone
nonGhlSseVars == <<postVars, sse, rest, ghl, registry, http, postSeen>>

\* what the head of the request handler leaves alone, the array TOOLS apart
nonHttpVars == <<postVars, sse, rest, ghl, ghlSse, postSeen>>

-----------------------------------------------------------------------------
(* JavaScript values *)

Undefined == "undefined"

JsNull == "null"

InvalidRequest == -32600

MethodNotFound == -32601

InternalError == -32603

ParseError == -32700

\* TOOLS: the registered tool names, in registration order
TOOLS == <<"s:search", "s:retrieve">>

\* inputSchema.required of each tool, in declaration order
required(tool) ==
    CASE tool = "s:search" -> <<"query">>
      [] tool = "s:retrieve" -> <<"id", "type">>
      [] OTHER -> <<>>

toolNames == {TOOLS[i] : i \in 1..Len(TOOLS)}

-----------------------------------------------------------------------------
(* The inputs: decoded JSON values and request bodies *)

ArgNames == {"query", "id", "type", "limit"}

NoArgs(tag) == [t |-> tag, keys |-> {}]

ArgsVals ==
    {NoArgs(tag) : tag \in {"undefined", "null", "prim"}}
        \cup {[t |-> "obj", keys |-> K] : K \in SUBSET ArgNames}

NameVals == {Undefined, "s:search", "s:retrieve", "s:nope"}

NoParams(tag) == [t |-> tag, name |-> Undefined, arguments |-> NoArgs("undefined")]

ParamsVals ==
    {NoParams(tag) : tag \in {"undefined", "null", "prim"}}
        \cup {[t |-> "obj", name |-> n, arguments |-> a] : n \in NameVals, a \in ArgsVals}

JsonRpcVals == {Undefined, "s:2.0", "s:1.0", "n:2"}

IdVals == {Undefined, JsNull, "n:1", "s:abc"}

MethodVals ==
    {Undefined, "s:initialize", "s:tools/list", "s:tools/call", "s:ping",
     "s:resources/list"}

NonObject(tag) ==
    [t |-> tag, jsonrpc |-> Undefined, id |-> Undefined, method |-> Undefined,
     params |-> NoParams("undefined")]

\* every decoded JSON value a body can hold: null, a non-object, an object
Messages ==
    {NonObject(tag) : tag \in {"null", "prim"}}
        \cup {[t |-> "obj", jsonrpc |-> j, id |-> i, method |-> m, params |-> p] :
                j \in JsonRpcVals, i \in IdVals, m \in MethodVals, p \in ParamsVals}

\* a request body: text that is not JSON, or the JSON text of a value
Bodies ==
    {[wellFormed |-> FALSE, value |-> NonObject("null")]}
        \cup {[wellFormed |-> TRUE, value |-> v] : v \in Messages}

\* whether a property of v can be read without a TypeError
CanRead(v) == v.t \notin {"null", "undefined"}


-----------------------------------------------------------------------------
(* Envelopes *)

NoText == [tool |-> "", query |-> "", type |-> "", id |-> ""]

\* a result value: tag "null" is the JavaScript null, "absent" a field not set
Result(tag, tools, text) == [t |-> tag, tools |-> tools, text |-> text]

NullResult == Result("null", <<>>, NoText)

AbsentResult == Result("absent", <<>>, NoText)

Error(code, message, detail) ==
    [t |-> "error", code |-> code, message |-> message, detail |-> detail]

NullError == [t |-> "null", code |-> 0, message |-> "", detail |-> <<>>]

AbsentError == [t |-> "absent", code |-> 0, message |-> "", detail |-> <<>>]

\* if (error): null is falsy, an error object is truthy
Truthy(error) == error.t \notin {"null", "undefined", "absent"}

\* the plausible slip: result is always set, error is added to it
createJsonRpcResponseBoth(id, result, error) ==
    [jsonrpc |-> "s:2.0", id |-> id, result |-> result,
     error |-> IF Truthy(error) THEN error ELSE AbsentError]

createJsonRpcResponse(id, result, error) ==
    IF Truthy(error)
    THEN [jsonrpc |-> "s:2.0", id |-> id, result |-> AbsentResult, error |-> error]
    ELSE [jsonrpc |-> "s:2.0", id |-> id, result |-> result, error |-> AbsentError]

NoResponse ==
    [jsonrpc |-> Undefined, id |-> Undefined, result |-> AbsentResult,
     error |-> AbsentError]

\* the outcome of a handler: a returned response or a thrown TypeError
Return(resp) == [threw |-> FALSE, resp |-> resp]

Throw == [threw |-> TRUE, resp |-> NoResponse]

-----------------------------------------------------------------------------
(* The method handlers *)

handleInitialize(request) ==
    Return(createJsonRpcResponse(request.id,
                                 Result("initialize", <<>>, NoText), NullError))

handleToolsList(request) ==
    Return(createJsonRpcResponse(request.id, Result("tools", registry, NoText),
                                 NullError))

\* the text a template literal gives for ${args.k}
Interp(args, k) == IF args.t = "obj" /\ k \in args.keys THEN k ELSE "undefined"

\* the plausible slip: a final else that serves every other name as retrieve
toolBranchNoElse(name) ==
    IF name = "s:search" THEN "search" ELSE "retrieve"

\* the plausible slip: a tool of TOOLS with no branch in handleToolsCall
toolBranchSearchOnly(name) ==
    IF name = "s:search" THEN "search" ELSE "notfound"

\* the if / else if / else chain over the tool name
toolBranch(name) ==
    CASE name = "s:search" -> "search"
      [] name = "s:retrieve" -> "retrieve"
      [] OTHER -> "notfound"

handleToolsCall(request) ==
    IF ~CanRead(request.params)
    THEN Throw  \* destructuring undefined or null
    ELSE LET name == request.params.name
             args == request.params.arguments
             branch == toolBranch(name)
         IN  CASE branch = "search" ->
                    IF ~CanRead(args)
                    THEN Throw  \* args.query
                    ELSE Return(createJsonRpcResponse(request.id,
                           Result("content", <<>>,
                                  [tool |-> "search", query |-> Interp(args, "query"),
                                   type |-> "", id |-> ""]),
                           NullError))
               [] branch = "retrieve" ->
                    IF ~CanRead(args)
                    THEN Throw  \* args.type
                    ELSE Return(createJsonRpcResponse(request.id,
                           Result("content", <<>>,
                                  [tool |-> "retrieve", query |-> "",
                                   type |-> Interp(args, "type"),
                                   id |-> Interp(args, "id")]),
                           NullError))
               [] OTHER ->
                    Return(createJsonRpcResponse(request.id, NullResult,
                           Error(MethodNotFound, "Method not found", <<name>>)))

\* the plausible slip: the result argument left out, so that it defaults to null
handlePingNull(request) ==
    Return(createJsonRpcResponse(request.id, NullResult, NullError))

handlePing(request) ==
    Return(createJsonRpcResponse(request.id, Result("empty", <<>>, NoText),
                                 NullError))

-----------------------------------------------------------------------------
(* The dispatcher *)

\* the plausible slip: != for !==, under which the number 2 equals "2.0"
badVersionLoose(message) == message.jsonrpc \notin {"s:2.0", "n:2"}

\* message.jsonrpc !== "2.0"
\* the plausible slip: a session check, refusing every method but initialize
\* until an initialize has been processed
badVersionOrNoSession(message) ==
    \/ message.jsonrpc # "s:2.0"
    \/ message.method # "s:initialize" /\ "initialize" \notin postSeen

badVersion(message) == message.jsonrpc # "s:2.0"

\* the body of the try block: the handler called and its outcome
tryBlock(message) ==
    IF ~CanRead(message)
    THEN [handler |-> "none", out |-> Throw]  \* message.method in the log call
    ELSE IF badVersion(message)
    THEN [handler |-> "none",
          out |-> Return(createJsonRpcResponse(message.id, NullResult,
                    Error(InvalidRequest, "Invalid Request", <<>>)))]
    ELSE CASE message.method = "s:initialize" ->
                [handler |-> "initialize", out |-> handleInitialize(message)]
           [] message.method = "s:tools/list" ->
                [handler |-> "tools/list", out |-> handleToolsList(message)]
           [] message.method = "s:tools/call" ->
                [handler |-> "tools/call", out |-> handleToolsCall(message)]
           [] message.method = "s:ping" ->
                [handler |-> "ping", out |-> handlePing(message)]
           [] OTHER ->
                [handler |-> "none",
                 out |-> Return(createJsonRpcResponse(message.id, NullResult,
                           Error(MethodNotFound, "Method not found",
                                 <<message.method>>)))]

\* try { ... } catch (error) { ... message.id ... }: the catch block reads
\* message.id, which throws again when message is null
processJsonRpcMessage(message) ==
    LET tried == tryBlock(message)
    IN  IF ~tried.out.threw
        THEN [handler |-> tried.handler, threw |-> FALSE, resp |-> tried.out.resp]
        ELSE IF ~CanRead(message)
        THEN [handler |-> tried.handler, threw |-> TRUE, resp |-> NoResponse]
        ELSE [handler |-> tried.handler, threw |-> FALSE,
              resp |-> createJsonRpcResponse(message.id, NullResult,
                         Error(InternalError, "Internal error", <<"TypeError">>))]

-----------------------------------------------------------------------------
(* POST /sse *)

\* the plausible slip: a parser that gives null for text that is not JSON
JSONparseLenient(body) == [threw |-> FALSE, value |-> body.value]

\* JSON.parse(body): throws a SyntaxError unless the body is JSON text
JSONparse(body) ==
    IF body.wellFormed THEN [threw |-> FALSE, value |-> body.value]
    ELSE [threw |-> TRUE, value |-> NonObject("undefined")]

\* JSON.stringify(response): a property whose value is undefined is left out
stringify(response) ==
    [fields |-> {"jsonrpc"}
                  \cup (IF response.id # Undefined THEN {"id"} ELSE {})
                  \cup (IF response.result.t # "absent" THEN {"result"} ELSE {})
                  \cup (IF response.error.t # "absent" THEN {"error"} ELSE {}),
     id |-> response.id, result |-> response.result, error |-> response.error]

\* the plausible slip: the frame is written twice
sendSSETwice(out, data) == Append(Append(out, stringify(data)), stringify(data))

\* sendSSE(res, data): one data frame appended to the stream
sendSSE(out, data) == Append(out, stringify(data))

\* the plausible slip: the response is also sent to every open SSE connection
PostSseBroadcast(body) ==
    /\ postSt = "idle"
    /\ postBody' = body
    /\ LET parsed == JSONparse(body)
           r == processJsonRpcMessage(parsed.value)
       IN  IF ~parsed.threw /\ ~r.threw
           THEN /\ postOut' = sendSSE(postOut, r.resp)
                /\ postSt' = "answered"
                /\ lastHandler' = r.handler
                /\ lastThrew' = FALSE
           ELSE /\ postOut' = sendSSE(postOut,
                      createJsonRpcResponse(JsNull, NullResult,
                                            Error(ParseError, "Parse error", <<>>)))
                /\ postSt' = "ended"
                /\ lastHandler' = IF parsed.threw THEN "none" ELSE r.handler
                /\ lastThrew' = ~parsed.threw
    /\ sse' = [c \in DOMAIN sse |->
                 IF sse[c].st = "open"
                 THEN [sse[c] EXCEPT !.log = Append(@, "w:response")]
                 ELSE sse[c]]
    /\ UNCHANGED <<rest, ghl, ghlSse, registry, http, postSeen>>

\* the 'end' handler of a POST to /sse, on a fresh response stream
PostSse(body) ==
    /\ postSt = "idle"
    /\ postBody' = body
    /\ LET parsed == JSONparse(body)
           r == processJsonRpcMessage(parsed.value)
       IN  IF ~parsed.threw /\ ~r.threw
           THEN /\ postOut' = sendSSE(postOut, r.resp)
                /\ postSt' = "answered"  \* setTimeout(() => res.end(), 100)
                /\ lastHandler' = r.handler
                /\ lastThrew' = FALSE
           ELSE /\ postOut' = sendSSE(postOut,
                      createJsonRpcResponse(JsNull, NullResult,
                                            Error(ParseError, "Parse error", <<>>)))
                /\ postSt' = "ended"  \* res.end()
                /\ lastHandler' = IF parsed.threw THEN "none" ELSE r.handler
                /\ lastThrew' = ~parsed.threw
    /\ UNCHANGED nonPostVars

\* the 100 ms timer of the POST handler: res.end()
PostClose ==
    /\ postSt = "answered"
    /\ postSt' = "ended"
    /\ UNCHANGED <<postBody, postOut, lastHandler, lastThrew, nonPostVars>>

NoBody == [wellFormed |-> FALSE, value |-> NonObject("null")]

\* the exchange is over; the next POST gets a request and a response of its own
PostDone ==
    /\ postSt = "ended"
    /\ postSt' = "idle"
    /\ postBody' = NoBody
    /\ postOut' = <<>>
    /\ lastHandler' = "none"
    /\ lastThrew' = FALSE
    /\ UNCHANGED nonPostVars

\* the same step, with the handler that ran added to the history
PostRecorded ==
    /\ postSt = "ended"
    /\ postSt' = "idle"
    /\ postBody' = NoBody
    /\ postOut' = <<>>
    /\ lastHandler' = "none"
    /\ lastThrew' = FALSE
    /\ postSeen' = postSeen \cup {lastHandler}
    /\ UNCHANGED <<sse, rest, ghl, ghlSse, registry, http>>

-----------------------------------------------------------------------------
(* GET /sse: one connection, its notification timer, its heartbeat interval *)
(* and its deadline timer.  Times are milliseconds since the handler ran.  *)

MaxConns == 2

NotifyDelay == 100

HeartbeatPeriod == 25000

Deadline == 50000

Conns == 1..MaxConns

NoConn ==
    [st |-> "none", notif |-> "idle", hb |-> "idle", hbDue |-> 0, dl |-> "idle",
     closed |-> FALSE, errored |-> FALSE, ended |-> FALSE, log |-> <<>>]

\* the due times of the timers of connection c that are still armed
armedDues(c) ==
    (IF sse[c].notif = "armed" THEN {NotifyDelay} ELSE {})
        \cup (IF sse[c].hb = "armed" THEN {sse[c].hbDue} ELSE {})
        \cup (IF sse[c].dl = "armed" THEN {Deadline} ELSE {})

\* the event loop runs expired timers in the order of their due times
earliest(c, due) == \A d \in armedDues(c) : due <= d

\* the handler of a GET to /sse: the initialized frame, then the three timers
SseGet(c) ==
    /\ sse[c].st = "none"
    /\ \A d \in 1..(c - 1) : sse[d].st # "none"
    /\ sse' = [sse EXCEPT ![c] =
                 [st |-> "open", notif |-> "armed", hb |-> "armed",
                  hbDue |-> HeartbeatPeriod, dl |-> "armed", closed |-> FALSE,
                  errored |-> FALSE, ended |-> FALSE,
                  log |-> <<"w:notification/initialized">>]]
    /\ UNCHANGED nonSseVars

\* the plausible slip: setInterval for setTimeout, the timer stays armed
NotifyTimerRepeats(c) ==
    /\ sse[c].notif = "armed"
    /\ earliest(c, NotifyDelay)
    /\ sse' = [sse EXCEPT ![c].log = Append(@, "w:notification/tools/list_changed")]
    /\ UNCHANGED nonSseVars

\* setTimeout(() => sendSSE(res, toolsNotification), 100): never cancelled
NotifyTimer(c) ==
    /\ sse[c].notif = "armed"
    /\ earliest(c, NotifyDelay)
    /\ sse' = [sse EXCEPT ![c].notif = "fired",
                          ![c].log = Append(@, "w:notification/tools/list_changed")]
    /\ UNCHANGED nonSseVars

\* setInterval(() => res.write(': heartbeat'), 25000)
HeartbeatTick(c) ==
    /\ sse[c].hb = "armed"
    /\ earliest(c, sse[c].hbDue)
    /\ sse' = [sse EXCEPT ![c].hbDue = @ + HeartbeatPeriod,
                          ![c].log = Append(@, "w:heartbeat")]
    /\ UNCHANGED nonSseVars

\* the plausible slip: one heartbeat handle shared by all connections
ReqCloseShared(c) ==
    /\ sse[c].st = "open"
    /\ ~sse[c].closed
    /\ sse' = [d \in Conns |->
                 IF d = c
                 THEN [sse[d] EXCEPT !.closed = TRUE, !.hb = "cleared",
                                     !.log = @ \o <<"close", "clearInterval">>]
                 ELSE [sse[d] EXCEPT !.hb = IF @ = "armed" THEN "cleared" ELSE @]]
    /\ UNCHANGED nonSseVars

\* req.on('close'): clearInterval(heartbeat)
ReqClose(c) ==
    /\ sse[c].st = "open"
    /\ ~sse[c].closed
    /\ sse' = [sse EXCEPT ![c].closed = TRUE, ![c].hb = "cleared",
                          ![c].log = @ \o <<"close", "clearInterval">>]
    /\ UNCHANGED nonSseVars

\* the plausible slip: the error handler only logs
ReqErrorKeepsHeartbeat(c) ==
    /\ sse[c].st = "open"
    /\ ~sse[c].closed
    /\ ~sse[c].errored
    /\ sse' = [sse EXCEPT ![c].errored = TRUE, ![c].log = Append(@, "error")]
    /\ UNCHANGED nonSseVars

\* req.on('error'): clearInterval(heartbeat)
ReqError(c) ==
    /\ sse[c].st = "open"
    /\ ~sse[c].closed
    /\ ~sse[c].errored
    /\ sse' = [sse EXCEPT ![c].errored = TRUE, ![c].hb = "cleared",
                          ![c].log = @ \o <<"error", "clearInterval">>]
    /\ UNCHANGED nonSseVars

\* the plausible slip: the deadline clears the heartbeat but forgets res.end()
DeadlineTimerNoEnd(c) ==
    /\ sse[c].dl = "armed"
    /\ earliest(c, Deadline)
    /\ sse' = [sse EXCEPT ![c].dl = "fired", ![c].hb = "cleared",
                          ![c].log = @ \o <<"deadline", "clearInterval">>]
    /\ UNCHANGED nonSseVars

\* setTimeout(() => { clearInterval(heartbeat); res.end() }, 50000): never cancelled
DeadlineTimer(c) ==
    /\ sse[c].dl = "armed"
    /\ earliest(c, Deadline)
    /\ sse' = [sse EXCEPT ![c].dl = "fired", ![c].hb = "cleared", ![c].ended = TRUE,
                          ![c].log = @ \o <<"deadline", "clearInterval", "end">>]
    /\ UNCHANGED nonSseVars

\* The same callbacks when res.write throws.  sendSSE catches the exception
\* and logs it; the heartbeat callback has no try block, so the exception
\* leaves the timer callback.  None of them touches a timer or the stream.

\* the handler of a GET to /sse, the write of the initialized frame failing
SseGetWriteFails(c) ==
    /\ sse[c].st = "none"
    /\ \A d \in 1..(c - 1) : sse[d].st # "none"
    /\ sse' = [sse EXCEPT ![c] =
                 [st |-> "open", notif |-> "armed", hb |-> "armed",
                  hbDue |-> HeartbeatPeriod, dl |-> "armed", closed |-> FALSE,
                  errored |-> FALSE, ended |-> FALSE,
                  log |-> <<"writeFailed", "logged">>]]
    /\ UNCHANGED nonSseVars

\* the 100 ms timer, the write of the list_changed frame failing
NotifyTimerWriteFails(c) ==
    /\ sse[c].notif = "armed"
    /\ earliest(c, NotifyDelay)
    /\ sse' = [sse EXCEPT ![c].notif = "fired",
                          ![c].log = @ \o <<"writeFailed", "logged">>]
    /\ UNCHANGED nonSseVars

\* the heartbeat interval, the write of the comment failing
HeartbeatTickWriteFails(c) ==
    /\ sse[c].hb = "armed"
    /\ earliest(c, sse[c].hbDue)
    /\ sse' = [sse EXCEPT ![c].hbDue = @ + HeartbeatPeriod,
                          ![c].log = @ \o <<"writeFailed", "uncaught">>]
    /\ UNCHANGED nonSseVars

-----------------------------------------------------------------------------
(* POST /api/genai/tools/{toolName}: the REST execution path *)

OK == 200

BadRequest == 400

NotFound == 404

ServerError == 500

\* req.url.split('/api/genai/tools/')[1]
RestNames == {"s:search", "s:retrieve", "s:nope", "s:"}

\* requestData.parameters: absent, falsy ("null"), a truthy primitive, or an
\* object with its keys and, among them, the keys whose value is falsy
ParamVals ==
    {[t |-> tag, keys |-> {}, falsy |-> {}] : tag \in {"undefined", "null", "prim"}}
        \cup UNION {{[t |-> "obj", keys |-> K, falsy |-> F] : F \in SUBSET K} :
                      K \in SUBSET ArgNames}

EmptyObject == [t |-> "obj", keys |-> {}, falsy |-> {}]

\* the request bodies: text that is not JSON, or JSON text of null, of a
\* primitive, or of an object with or without a parameters property
RestBodies ==
    {[wellFormed |-> FALSE, t |-> "null", parameters |-> EmptyObject]}
        \cup {[wellFormed |-> TRUE, t |-> tag,
               parameters |-> [t |-> "undefined", keys |-> {}, falsy |-> {}]] :
                tag \in {"null", "prim"}}
        \cup {[wellFormed |-> TRUE, t |-> "obj", parameters |-> p] : p \in ParamVals}

\* the plausible slip: !parameters[param], which also rejects a falsy value
missingParamsFalsy(tool, parameters) ==
    LET absent(param) ==
            ~(parameters.t = "obj" /\ param \in parameters.keys \ parameters.falsy)
    IN  SelectSeq(required(tool), absent)

\* requiredParams.filter(param => !(param in parameters))
missingParams(tool, parameters) ==
    LET absent(param) == ~(parameters.t = "obj" /\ param \in parameters.keys)
    IN  SelectSeq(required(tool), absent)

\* executeToolLogic(toolName, parameters): the text, or a thrown Error
executeToolLogic(toolName, parameters) ==
    CASE toolName = "s:search" ->
           [threw |-> FALSE,
            text |-> [tool |-> "search", query |-> Interp(parameters, "query"),
                      type |-> "", id |-> ""]]
      [] toolName = "s:retrieve" ->
           [threw |-> FALSE,
            text |-> [tool |-> "retrieve", query |-> "",
                      type |-> Interp(parameters, "type"),
                      id |-> Interp(parameters, "id")]]
      [] OTHER -> [threw |-> TRUE, text |-> NoText]

\* res.status(status).json({success, error, ...})
RestResponse(status, success, error) ==
    [status |-> status, success |-> success, error |-> error, missing |-> <<>>,
     required_parameters |-> <<>>, provided_parameters |-> {},
     available_tools |-> <<>>, result |-> NoText, executed |-> FALSE]

\* the outer catch block: every exception of the 'end' handler ends here
invalidJson == RestResponse(BadRequest, FALSE, "Invalid JSON in request body")

\* if (!tool): 404 with the names of the registered tools
toolNotFound(toolName) ==
    [RestResponse(NotFound, FALSE, "Tool not found") EXCEPT
        !.available_tools = registry]

\* the 'end' handler of the REST execution path: the one response it sends
genaiExecute(toolName, body) ==
    IF ~body.wellFormed
    THEN invalidJson  \* JSON.parse throws
    ELSE IF body.t = "null"
    THEN invalidJson  \* requestData.parameters throws a TypeError
    ELSE LET given == body.parameters
             parameters == IF given.t \in {"undefined", "null"}
                           THEN EmptyObject ELSE given  \* || {}
         IN  IF \A i \in 1..Len(registry) : registry[i] # toolName  \* TOOLS.find
             THEN toolNotFound(toolName)
             ELSE IF required(toolName) # <<>> /\ parameters.t = "prim"
             THEN invalidJson  \* (param in parameters) throws a TypeError
             ELSE IF missingParams(toolName, parameters) # <<>>
             THEN [RestResponse(BadRequest, FALSE, "Missing required parameters")
                     EXCEPT !.missing = missingParams(toolName, parameters),
                            !.required_parameters = required(toolName),
                            !.provided_parameters = parameters.keys]
             ELSE LET run == executeToolLogic(toolName, parameters)
                  IN  IF run.threw
                      THEN [RestResponse(ServerError, FALSE,
                                         "execution not implemented")
                              EXCEPT !.executed = TRUE]
                      ELSE [RestResponse(OK, TRUE, "")
                              EXCEPT !.result = run.text, !.executed = TRUE]

NoRest ==
    [st |-> "idle", name |-> "s:",
     body |-> [wellFormed |-> FALSE, t |-> "null", parameters |-> EmptyObject],
     resp |-> RestResponse(0, FALSE, "")]

\* a POST to /api/genai/tools/{toolName}, served to its response
RestPost(toolName, body) ==
    /\ rest.st = "idle"
    /\ rest' = [st |-> "done", name |-> toolName, body |-> body,
                resp |-> genaiExecute(toolName, body)]
    /\ UNCHANGED nonRestVars

\* the exchange is over; the next request gets a response of its own
RestDone ==
    /\ rest.st = "done"
    /\ rest' = NoRest
    /\ UNCHANGED nonRestVars

-----------------------------------------------------------------------------
(* GHLMCPServer (server.ts): nineteen handler groups behind one MCP server *)

\* Array.prototype.includes
includes(array, x) == \E i \in 1..Len(array) : array[i] = x

contactToolNames ==
    << "create_contact", "search_contacts", "get_contact", "update_contact",
       "add_contact_tags", "remove_contact_tags", "delete_contact",
       "get_contact_tasks", "create_contact_task", "get_contact_task",
       "update_contact_task", "delete_contact_task", "update_task_completion",
       "get_contact_notes", "create_contact_note", "get_contact_note",
       "update_contact_note", "delete_contact_note", "upsert_contact",
       "get_duplicate_contact", "get_contacts_by_business",
       "get_contact_appointments", "bulk_update_contact_tags",
       "bulk_update_contact_business", "add_contact_followers",
       "remove_contact_followers", "add_contact_to_campaign",
       "remove_contact_from_campaign", "remove_contact_from_all_campaigns",
       "add_contact_to_workflow", "remove_contact_from_workflow" >>

isContactTool(toolName) == includes(contactToolNames, toolName)

conversationToolNames ==
    << "send_sms", "send_email", "search_conversations", "get_conversation",
       "create_conversation", "update_conversation", "delete_conversation",
       "get_recent_messages", "get_email_message", "get_message",
       "upload_message_attachments", "update_message_status",
       "add_inbound_message", "add_outbound_call", "get_message_recording",
       "get_message_transcription", "download_transcription",
       "cancel_scheduled_message", "cancel_scheduled_email", "live_chat_typing" >>

isConversationTool(toolName) == includes(conversationToolNames, toolName)

blogToolNames ==
    << "create_blog_post", "update_blog_post", "get_blog_posts",
       "get_blog_sites", "get_blog_authors", "get_blog_categories",
       "check_url_slug" >>

isBlogTool(toolName) == includes(blogToolNames, toolName)

opportunityToolNames ==
    << "search_opportunities", "get_pipelines", "get_opportunity",
       "create_opportunity", "update_opportunity_status", "delete_opportunity",
       "update_opportunity", "upsert_opportunity", "add_opportunity_followers",
       "remove_opportunity_followers" >>

isOpportunityTool(toolName) == includes(opportunityToolNames, toolName)

calendarToolNames ==
    << "get_calendar_groups", "get_calendars", "create_calendar", "get_calendar",
       "update_calendar", "delete_calendar", "get_calendar_events",
       "get_free_slots", "create_appointment", "get_appointment",
       "update_appointment", "delete_appointment", "create_block_slot",
       "update_block_slot" >>

isCalendarTool(toolName) == includes(calendarToolNames, toolName)

emailToolNames ==
    << "get_email_campaigns", "create_email_template", "get_email_templates",
       "update_email_template", "delete_email_template" >>

isEmailTool(toolName) == includes(emailToolNames, toolName)

locationToolNames ==
    << "search_locations", "get_location", "create_location", "update_location",
       "delete_location", "get_location_tags", "create_location_tag",
       "get_location_tag", "update_location_tag", "delete_location_tag",
       "search_location_tasks", "get_location_custom_fields",
       "create_location_custom_field", "get_location_custom_field",
       "update_location_custom_field", "delete_location_custom_field",
       "get_location_custom_values", "create_location_custom_value",
       "get_location_custom_value", "update_location_custom_value",
       "delete_location_custom_value", "get_location_templates",
       "delete_location_template", "get_timezones" >>

isLocationTool(toolName) == includes(locationToolNames, toolName)

emailISVToolNames ==
    << "verify_email" >>

isEmailISVTool(toolName) == includes(emailISVToolNames, toolName)

socialMediaToolNames ==
    << "search_social_posts", "create_social_post", "get_social_post",
       "update_social_post", "delete_social_post", "bulk_delete_social_posts",
       "get_social_accounts", "delete_social_account", "upload_social_csv",
       "get_csv_upload_status", "set_csv_accounts", "get_social_categories",
       "get_social_category", "get_social_tags", "get_social_tags_by_ids",
       "start_social_oauth", "get_platform_accounts" >>

isSocialMediaTool(toolName) == includes(socialMediaToolNames, toolName)

mediaToolNames ==
    << "get_media_files", "upload_media_file", "delete_media_file" >>

\* the plausible slip: a name pasted into a second list
isMediaToolShared(toolName) ==
    includes(mediaToolNames \o <<contactToolNames[1]>>, toolName)

isMediaTool(toolName) == includes(mediaToolNames, toolName)

objectToolNames ==
    << "get_all_objects", "create_object_schema", "get_object_schema",
       "update_object_schema", "create_object_record", "get_object_record",
       "update_object_record", "delete_object_record", "search_object_records" >>

isObjectTool(toolName) == includes(objectToolNames, toolName)

associationToolNames ==
    << "ghl_get_all_associations", "ghl_create_association",
       "ghl_get_association_by_id", "ghl_update_association",
       "ghl_delete_association", "ghl_get_association_by_key",
       "ghl_get_association_by_object_key", "ghl_create_relation",
       "ghl_get_relations_by_record", "ghl_delete_relation" >>

isAssociationTool(toolName) == includes(associationToolNames, toolName)

customFieldV2ToolNames ==
    << "ghl_get_custom_field_by_id", "ghl_create_custom_field",
       "ghl_update_custom_field", "ghl_delete_custom_field",
       "ghl_get_custom_fields_by_object_key", "ghl_create_custom_field_folder",
       "ghl_update_custom_field_folder", "ghl_delete_custom_field_folder" >>

isCustomFieldV2Tool(toolName) == includes(customFieldV2ToolNames, toolName)

workflowToolNames ==
    << "ghl_get_workflows" >>

isWorkflowTool(toolName) == includes(workflowToolNames, toolName)

surveyToolNames ==
    << "ghl_get_surveys", "ghl_get_survey_submissions" >>

isSurveyTool(toolName) == includes(surveyToolNames, toolName)

storeToolNames ==
    << "ghl_create_shipping_zone", "ghl_list_shipping_zones",
       "ghl_get_shipping_zone", "ghl_update_shipping_zone",
       "ghl_delete_shipping_zone", "ghl_get_available_shipping_rates",
       "ghl_create_shipping_rate", "ghl_list_shipping_rates",
       "ghl_get_shipping_rate", "ghl_update_shipping_rate",
       "ghl_delete_shipping_rate", "ghl_create_shipping_carrier",
       "ghl_list_shipping_carriers", "ghl_get_shipping_carrier",
       "ghl_update_shipping_carrier", "ghl_delete_shipping_carrier",
       "ghl_create_store_setting", "ghl_get_store_setting" >>

isStoreTool(toolName) == includes(storeToolNames, toolName)

productsToolNames ==
    << "ghl_create_product", "ghl_list_products", "ghl_get_product",
       "ghl_update_product", "ghl_delete_product", "ghl_create_price",
       "ghl_list_prices", "ghl_list_inventory", "ghl_create_product_collection",
       "ghl_list_product_collections" >>

isProductsTool(toolName) == includes(productsToolNames, toolName)

paymentsToolNames ==
    << "create_whitelabel_integration_provider",
       "list_whitelabel_integration_providers", "list_orders", "get_order_by_id",
       "create_order_fulfillment", "list_order_fulfillments",
       "list_transactions", "get_transaction_by_id", "list_subscriptions",
       "get_subscription_by_id", "list_coupons", "create_coupon",
       "update_coupon", "delete_coupon", "get_coupon",
       "create_custom_provider_integration",
       "delete_custom_provider_integration", "get_custom_provider_config",
       "create_custom_provider_config", "disconnect_custom_provider_config" >>

isPaymentsTool(toolName) == includes(paymentsToolNames, toolName)

invoicesToolNames ==
    << "create_invoice_template", "list_invoice_templates",
       "get_invoice_template", "update_invoice_template",
       "delete_invoice_template", "update_invoice_template_late_fees",
       "update_invoice_template_payment_methods", "create_invoice_schedule",
       "list_invoice_schedules", "get_invoice_schedule",
       "update_invoice_schedule", "delete_invoice_schedule",
       "schedule_invoice_schedule", "auto_payment_invoice_schedule",
       "cancel_invoice_schedule", "create_invoice", "list_invoices",
       "get_invoice", "update_invoice", "delete_invoice", "void_invoice",
       "send_invoice", "record_invoice_payment", "generate_invoice_number",
       "text2pay_invoice", "update_invoice_last_visited", "create_estimate",
       "list_estimates", "update_estimate", "delete_estimate", "send_estimate",
       "create_invoice_from_estimate", "generate_estimate_number",
       "update_estimate_last_visited", "list_estimate_templates",
       "create_estimate_template", "update_estimate_template",
       "delete_estimate_template", "preview_estimate_template" >>

isInvoicesTool(toolName) == includes(invoicesToolNames, toolName)

\* the handler groups, in the order of the if/else chain of CallTool, which is
\* also the order of the spread in ListTools and in GET /api/tools
groups ==
    << "contactTools", "conversationTools", "blogTools", "opportunityTools",
       "calendarTools", "emailTools", "locationTools", "emailISVTools",
       "socialMediaTools", "mediaTools", "objectTools", "associationTools",
       "customFieldV2Tools", "workflowTools", "surveyTools", "storeTools",
       "productsTools", "paymentsTools", "invoicesTools" >>

noGroup == "none"

\* the condition of the branch that calls the executor of the group
isTool(group, toolName) ==
    CASE group = "contactTools" -> isContactTool(toolName)
      [] group = "conversationTools" -> isConversationTool(toolName)
      [] group = "blogTools" -> isBlogTool(toolName)
      [] group = "opportunityTools" -> isOpportunityTool(toolName)
      [] group = "calendarTools" -> isCalendarTool(toolName)
      [] group = "emailTools" -> isEmailTool(toolName)
      [] group = "locationTools" -> isLocationTool(toolName)
      [] group = "emailISVTools" -> isEmailISVTool(toolName)
      [] group = "socialMediaTools" -> isSocialMediaTool(toolName)
      [] group = "mediaTools" -> isMediaTool(toolName)
      [] group = "objectTools" -> isObjectTool(toolName)
      [] group = "associationTools" -> isAssociationTool(toolName)
      [] group = "customFieldV2Tools" -> isCustomFieldV2Tool(toolName)
      [] group = "workflowTools" -> isWorkflowTool(toolName)
      [] group = "surveyTools" -> isSurveyTool(toolName)
      [] group = "storeTools" -> isStoreTool(toolName)
      [] group = "productsTools" -> isProductsTool(toolName)
      [] group = "paymentsTools" -> isPaymentsTool(toolName)
      [] group = "invoicesTools" -> isInvoicesTool(toolName)

\* the names a group routes
ownNames(group) ==
    CASE group = "contactTools" -> contactToolNames
      [] group = "conversationTools" -> conversationToolNames
      [] group = "blogTools" -> blogToolNames
      [] group = "opportunityTools" -> opportunityToolNames
      [] group = "calendarTools" -> calendarToolNames
      [] group = "emailTools" -> emailToolNames
      [] group = "locationTools" -> locationToolNames
      [] group = "emailISVTools" -> emailISVToolNames
      [] group = "socialMediaTools" -> socialMediaToolNames
      [] group = "mediaTools" -> mediaToolNames
      [] group = "objectTools" -> objectToolNames
      [] group = "associationTools" -> associationToolNames
      [] group = "customFieldV2Tools" -> customFieldV2ToolNames
      [] group = "workflowTools" -> workflowToolNames
      [] group = "surveyTools" -> surveyToolNames
      [] group = "storeTools" -> storeToolNames
      [] group = "productsTools" -> productsToolNames
      [] group = "paymentsTools" -> paymentsToolNames
      [] group = "invoicesTools" -> invoicesToolNames

\* the first branch of the chain, taken in the given order, whose condition holds
RECURSIVE firstMatch(_, _, _)
firstMatch(order, i, toolName) ==
    IF i > Len(order) THEN noGroup
    ELSE IF isTool(order[i], toolName) THEN order[i]
    ELSE firstMatch(order, i + 1, toolName)

route(toolName) == firstMatch(groups, 1, toolName)

\* The descriptor lists come from the tool classes: each group describes the
\* names it routes, and one group may describe one name more.
NoExtra == [group |-> noGroup, name |-> "none"]

\* a name the contact group already describes, and a name no group routes
ExtraNames == {contactToolNames[1], "export_contacts"}

\* no group describes one of its own names twice
Extras ==
    {NoExtra} \cup
    {extra \in [group : {groups[i] : i \in 1..Len(groups)}, name : ExtraNames] :
        ~includes(ownNames(extra.group), extra.name)}

\* getToolDefinitions() / getTools() of a group: the names of its descriptors
getToolDefinitions(group) ==
    ownNames(group) \o (IF ghl.extra.group = group THEN <<ghl.extra.name>> ELSE <<>>)

RECURSIVE spread(_, _)
spread(order, i) ==
    IF i > Len(order) THEN <<>>
    ELSE getToolDefinitions(order[i]) \o spread(order, i + 1)

allTools == spread(groups, 1)

\* names no predicate lists; the text of the second contains "404"
UnknownNames == {"nope", "lookup_404"}

CallNames ==
    UNION {{ownNames(groups[i])[k] : k \in 1..Len(ownNames(groups[i]))} :
              i \in 1..Len(groups)}
        \cup UnknownNames \cup ExtraNames

\* what the executor of a group does: it returns, throws an Error, or throws
\* a value that is not an Error
Outcomes ==
    { [kind |-> "return", text |-> <<"ok">>],
      [kind |-> "throwError", text |-> <<"boom">>],
      [kind |-> "throwError", text |-> <<"Request failed with status code 404">>],
      [kind |-> "throwValue", text |-> <<"404">>] }

\* the pieces of text in which "404" occurs
Has404 == {"Request failed with status code 404", "404", "lookup_404"}

\* error.message.includes('404'), a message being the sequence of its pieces
includes404(message) == \E i \in 1..Len(message) : message[i] \in Has404

NoReq == [name |-> "none", outcome |-> [kind |-> "none", text |-> <<>>]]

NoResp == [t |-> "none", tools |-> <<>>, code |-> 0, message |-> <<>>]

NoGhl ==
    [st |-> "down", extra |-> NoExtra, req |-> NoReq, invoked |-> <<>>,
     resp |-> NoResp]

McpError(code, message) == [NoResp EXCEPT !.t = "error", !.code = code, !.message = message]

\* the template `${error}`
errorString(thrown) ==
    IF thrown.kind = "throwError" THEN <<"Error: ">> \o thrown.text ELSE thrown.text

\* new GHLMCPServer() and start(): the groups are built, the handlers set up,
\* the server listens
GhlStart(extra) ==
    /\ ghl.st = "down"
    /\ ghl' = [ghl EXCEPT !.st = "serving", !.extra = extra]
    /\ UNCHANGED nonGhlVars

\* the ListTools handler
ListTools ==
    /\ ghl.st = "serving"
    /\ ghl' = [ghl EXCEPT !.st = "listed",
                          !.resp = [NoResp EXCEPT !.t = "tools", !.tools = allTools]]
    /\ UNCHANGED nonGhlVars

\* GET /api/tools
ApiTools ==
    /\ ghl.st = "serving"
    /\ ghl' = [ghl EXCEPT !.st = "catalog",
                          !.resp = [NoResp EXCEPT !.t = "json", !.tools = allTools]]
    /\ UNCHANGED nonGhlVars

\* the CallTool handler: the chain of branches, then the catch
CallTool(name, outcome) ==
    /\ ghl.st = "serving"
    /\ LET group == route(name)
           done == IF group = noGroup
                     THEN [kind |-> "throwError", text |-> <<"Unknown tool: ", name>>]
                     ELSE outcome
           errorCode == IF done.kind = "throwError" /\ includes404(done.text)
                          THEN InvalidRequest ELSE InternalError
       IN  /\ group = noGroup => outcome = NoReq.outcome
           /\ group # noGroup => outcome \in Outcomes
           /\ ghl' = [ghl EXCEPT
                 !.st = "called",
                 !.req = [name |-> name, outcome |-> outcome],
                 !.invoked = IF group = noGroup THEN <<>> ELSE <<group>>,
                 !.resp = IF done.kind = "return"
                            THEN [NoResp EXCEPT !.t = "content", !.message = done.text]
                            ELSE McpError(errorCode,
                                          <<"Tool execution failed: ">> \o errorString(done))]
    /\ UNCHANGED nonGhlVars

\* the server is ready for the next request
GhlDone ==
    /\ ghl.st \in {"listed", "catalog", "called"}
    /\ ghl' = [ghl EXCEPT !.st = "serving", !.req = NoReq, !.invoked = <<>>,
                          !.resp = NoResp]
    /\ UNCHANGED nonGhlVars

-----------------------------------------------------------------------------
(* GHLMCPServer: GET /sse.  Every connection gets a transport of its own and *)
(* connects it to this.server, the one Server the constructor creates.       *)

noTransport == 0

\* no connection is open, the Server has no transport
NoGhlSse == [open |-> {}, refused |-> {}, transport |-> noTransport]

\* this.server.connect(transport): the Server holds one transport, the one it
\* was connected to last
connect(server, transport) == [server EXCEPT !.transport = transport]

\* GET /sse: a new SSEServerTransport on res, then this.server.connect
GhlSseGet(c) ==
    /\ ghl.st # "down"
    /\ c \notin ghlSse.open \cup ghlSse.refused
    /\ ghlSse' = [connect(ghlSse, c) EXCEPT !.open = @ \cup {c}]
    /\ UNCHANGED nonGhlSseVars

\* GET /sse when connect throws: the catch block answers 500
GhlSseGetFails(c) ==
    /\ ghl.st # "down"
    /\ c \notin ghlSse.open \cup ghlSse.refused
    /\ ghlSse' = [ghlSse EXCEPT !.refused = @ \cup {c}]
    /\ UNCHANGED nonGhlSseVars

\* the client of connection c goes away; the Server loses its transport when
\* it was that of c
GhlSseClose(c) ==
    /\ c \in ghlSse.open \cup ghlSse.refused
    /\ ghlSse' = [open |-> ghlSse.open \ {c}, refused |-> ghlSse.refused \ {c},
                  transport |-> IF ghlSse.transport = c THEN noTransport
                                ELSE ghlSse.transport]
    /\ UNCHANGED nonGhlSseVars

-----------------------------------------------------------------------------
(* The head of the request handler: a request is classified by url and method *)

Methods == {"GET", "POST", "OPTIONS", "PUT", "DELETE", "HEAD", "PATCH"}

\* req.url: the path segments, a trailing slash, the query string
Url(segs, slash, query) == [segs |-> segs, slash |-> slash, query |-> query]

Urls ==
    { Url(<<>>, FALSE, ""),
      Url(<<"health">>, FALSE, ""),
      Url(<<"health">>, FALSE, "x=1"),
      Url(<<"health">>, TRUE, ""),
      Url(<<"sse">>, FALSE, ""),
      Url(<<"sse">>, FALSE, "x=1"),
      Url(<<"sse">>, TRUE, ""),
      Url(<<"api", "genai", "tools">>, FALSE, ""),
      Url(<<"api", "genai", "tools">>, TRUE, ""),
      Url(<<"api", "genai", "tools", "search">>, FALSE, ""),
      Url(<<"api", "genai", "tools", "nope">>, FALSE, ""),
      Url(<<"api", "tools">>, FALSE, ""),
      Url(<<"favicon.ico">>, FALSE, ""),
      Url(<<"static", "favicon.png">>, FALSE, ""),
      Url(<<"unknown">>, FALSE, "icon=favicon"),
      Url(<<"unknown">>, FALSE, "") }

\* req.url === '/a/b'
isUrl(url, segs) == url = Url(segs, FALSE, "")

\* the pieces of a url in which "favicon" occurs
FaviconTexts == {"favicon.ico", "favicon.png", "icon=favicon"}

\* req.url?.includes('favicon')
includesFavicon(url) ==
    \/ \E i \in 1..Len(url.segs) : url.segs[i] \in FaviconTexts
    \/ url.query \in FaviconTexts

genaiTools == <<"api", "genai", "tools">>

\* req.url.startsWith('/api/genai/tools/')
startsWithGenaiTools(url) ==
    /\ Len(url.segs) >= Len(genaiTools)
    /\ SubSeq(url.segs, 1, Len(genaiTools)) = genaiTools
    /\ (Len(url.segs) > Len(genaiTools) \/ url.slash)

\* what was sent for a request: the status lines in the order they were
\* committed, the body, the tools in it (TOOLS.map(...) of the array as it is
\* at the request, a descriptor standing for its name), whether the handler threw
HttpResponse(head, body) ==
    [head |-> head, body |-> body, tools |-> <<>>, threw |-> FALSE]

\* the responses the head of the handler can give.  The bodies "execute",
\* "stream" and "answer" stand for the three handlers that take over (REST
\* execution, GET /sse, POST /sse).  On /sse the status line 200 is committed
\* by writeHead before the method is looked at; for another method the default
\* 404 then runs on a response whose head is sent: res.status(404).json(...)
\* throws, or writes its body under the 200, by the host's response helpers.
serve(method, url) ==
    IF method = "OPTIONS"
    THEN {HttpResponse(<<OK>>, "none")}
    ELSE IF isUrl(url, <<"health">>) \/ isUrl(url, <<>>)
    THEN {[HttpResponse(<<OK>>, "health") EXCEPT !.tools = registry]}
    ELSE IF includesFavicon(url)
    THEN {HttpResponse(<<NotFound>>, "none")}
    ELSE IF isUrl(url, genaiTools) /\ method = "GET"
    THEN {[HttpResponse(<<OK>>, "tools") EXCEPT !.tools = registry]}
    ELSE IF startsWithGenaiTools(url) /\ method = "POST"
    THEN {HttpResponse(<<>>, "execute")}
    ELSE IF isUrl(url, <<"sse">>)
    THEN IF method = "GET" THEN {HttpResponse(<<OK>>, "stream")}
         ELSE IF method = "POST" THEN {HttpResponse(<<OK>>, "answer")}
         ELSE {[HttpResponse(<<OK>>, "none") EXCEPT !.threw = TRUE],
               HttpResponse(<<OK>>, "endpoints")}
    ELSE {HttpResponse(<<NotFound>>, "endpoints")}

NoHttp ==
    [st |-> "idle", method |-> "GET", url |-> Url(<<>>, FALSE, ""),
     resp |-> HttpResponse(<<>>, "none")]

\* the plausible slip: the array is reversed in place before it is mapped
RequestReversesTools(method, url) ==
    /\ http.st = "idle"
    /\ \E resp \in serve(method, url) :
          http' = [st |-> "done", method |-> method, url |-> url, resp |-> resp]
    /\ registry' = [i \in 1..Len(registry) |-> registry[Len(registry) + 1 - i]]
    /\ UNCHANGED nonHttpVars

\* a request arrives and the head of the handler classifies it
Request(method, url) ==
    /\ http.st = "idle"
    /\ \E resp \in serve(method, url) :
          http' = [st |-> "done", method |-> method, url |-> url, resp |-> resp]
    /\ UNCHANGED <<nonHttpVars, registry>>

\* the next request
HttpDone ==
    /\ http.st = "done"
    /\ http' = NoHttp
    /\ UNCHANGED <<nonHttpVars, registry>>

-----------------------------------------------------------------------------
(* Specifications *)

Init ==
    /\ postSt = "idle"
    /\ postBody = NoBody
    /\ postOut = <<>>
    /\ lastHandler = "none"
    /\ lastThrew = FALSE
    /\ sse = [c \in Conns |-> NoConn]
    /\ rest = NoRest
    /\ ghl = NoGhl
    /\ ghlSse = NoGhlSse
    /\ registry = TOOLS
    /\ http = NoHttp
    /\ postSeen = {}

\* the POST /sse exchanges, one after the other
Next ==
    \/ \E body \in Bodies : PostSse(body)
    \/ PostClose
    \/ PostDone

Spec == Init /\ [][Next]_vars

\* the GET /sse connections
NextSSE ==
    \E c \in Conns :
        \/ SseGet(c)
        \/ NotifyTimer(c)
        \/ HeartbeatTick(c)
        \/ ReqClose(c)
        \/ ReqError(c)
        \/ DeadlineTimer(c)

SpecSSE == Init /\ [][NextSSE]_vars

\* the event loop runs every armed timer once it is due
SpecSSEFair ==
    /\ SpecSSE
    /\ \A c \in Conns :
          /\ WF_vars(NotifyTimer(c))
          /\ WF_vars(HeartbeatTick(c))
          /\ WF_vars(DeadlineTimer(c))

\* one GET /sse connection whose writes may fail
NextSSEFaulty ==
    \/ SseGet(1)
    \/ SseGetWriteFails(1)
    \/ NotifyTimer(1)
    \/ NotifyTimerWriteFails(1)
    \/ HeartbeatTick(1)
    \/ HeartbeatTickWriteFails(1)
    \/ ReqClose(1)
    \/ ReqError(1)
    \/ DeadlineTimer(1)

SpecSSEFaulty == Init /\ [][NextSSEFaulty]_vars

\* the REST executions, one after the other
NextRest ==
    \/ \E toolName \in RestNames, body \in RestBodies : RestPost(toolName, body)
    \/ RestDone

SpecRest == Init /\ [][NextRest]_vars

\* GHLMCPServer: started once, then one request after the other
NextGHL ==
    \/ \E extra \in Extras : GhlStart(extra)
    \/ ListTools
    \/ ApiTools
    \/ \E name \in CallNames, outcome \in Outcomes \cup {NoReq.outcome} :
          CallTool(name, outcome)
    \/ GhlDone

SpecGHL == Init /\ [][NextGHL]_vars

\* the bodies of tools/call requests, for every name and every arguments value
CallBodies ==
    {[wellFormed |-> TRUE,
      value |-> [t |-> "obj", jsonrpc |-> "s:2.0", id |-> "n:1",
                 method |-> "s:tools/call",
                 params |-> [t |-> "obj", name |-> n, arguments |-> a]]] :
        n \in NameVals, a \in ArgsVals}

\* a tools/call over POST /sse and a REST execution, served side by side
NextBoth ==
    \/ \E body \in CallBodies : PostSse(body)
    \/ PostClose
    \/ PostDone
    \/ \E toolName \in RestNames, body \in RestBodies : RestPost(toolName, body)
    \/ RestDone

SpecBoth == Init /\ [][NextBoth]_vars

\* the messages of a session: every method, well and badly versioned, with
\* and without params, next to null and to text that is not JSON
SessionBodies ==
    {body \in Bodies :
        body.wellFormed /\ body.value.t = "obj"
            => /\ body.value.jsonrpc \in {"s:2.0", "s:1.0"}
               /\ body.value.id = "n:1"
               /\ \/ body.value.params.t = "undefined"
                  \/ /\ body.value.params.t = "obj"
                     /\ body.value.params.name \in {"s:search", "s:nope"}
                     /\ body.value.params.arguments = [t |-> "obj", keys |-> {"query"}]}

\* POST /sse exchanges one after the other, with the history of the handlers
NextSession ==
    \/ \E body \in SessionBodies : PostSse(body)
    \/ PostClose
    \/ PostRecorded

SpecSession == Init /\ [][NextSession]_vars

\* the requests, one after the other, as the head of the handler sees them
NextHttp ==
    \/ \E method \in Methods, url \in Urls : Request(method, url)
    \/ HttpDone

SpecHttp == Init /\ [][NextHttp]_vars

\* GHLMCPServer with its SSE connections: started, then connections opened and
\* closed while requests are served
NextGhlSse ==
    \/ GhlStart(NoExtra)
    \/ \E c \in Conns : GhlSseGet(c) \/ GhlSseGetFails(c) \/ GhlSseClose(c)
    \/ ListTools
    \/ ApiTools
    \/ \E name \in UnknownNames \cup {contactToolNames[1]},
          outcome \in Outcomes \cup {NoReq.outcome} : CallTool(name, outcome)
    \/ GhlDone

SpecGhlSse == Init /\ [][NextGhlSse]_vars

\* one message of every method, null and text that is not JSON
AllBodies ==
    {body \in SessionBodies :
        body.wellFormed /\ body.value.t = "obj"
            => body.value.jsonrpc = "s:2.0" /\ body.value.params.t = "obj"
               /\ body.value.params.name = "s:search"}

\* REST bodies: text that is not JSON, no parameters, every parameter given
AllRestBodies ==
    {body \in RestBodies :
        body.wellFormed /\ body.t = "obj"
            => body.parameters \in {EmptyObject,
                                    [t |-> "obj", keys |-> ArgNames, falsy |-> {}]}}

\* the health check, the catalog and a url no branch serves
AllUrls == {url \in Urls : url.query = "" /\ ~url.slash /\ Len(url.segs) # 1}

\* every kind of request the handler serves, in every order
NextAll ==
    \/ \E body \in AllBodies : PostSse(body)
    \/ PostClose
    \/ PostDone
    \/ \E toolName \in RestNames, body \in AllRestBodies : RestPost(toolName, body)
    \/ RestDone
    \/ SseGet(1)
    \/ NotifyTimer(1)
    \/ HeartbeatTick(1)
    \/ ReqClose(1)
    \/ ReqError(1)
    \/ DeadlineTimer(1)
    \/ \E url \in AllUrls : Request("GET", url)
    \/ HttpDone

SpecAll == Init /\ [][NextAll]_vars

\* tools/list and every tools/call
ToolBodies ==
    CallBodies \cup
    {body \in SessionBodies :
        /\ body.wellFormed
        /\ body.value.t = "obj"
        /\ body.value.jsonrpc = "s:2.0"
        /\ body.value.method = "s:tools/list"
        /\ body.value.params.t = "undefined"}

\* what is advertised next to what is executed, over both transports
NextTools ==
    \/ \E body \in ToolBodies : PostSse(body)
    \/ PostClose
    \/ PostDone
    \/ \E toolName \in RestNames, body \in RestBodies : RestPost(toolName, body)
    \/ RestDone

SpecTools == Init /\ [][NextTools]_vars

\* the POST /sse exchanges, with the 100 ms timer of the handler run when due
SpecPostFair == Spec /\ WF_vars(PostClose)

-----------------------------------------------------------------------------
(* Claims about the dispatcher, checked under Spec *)

\* the POST being served carries a decoded JSON object
servedObject ==
    postSt # "idle" /\ postBody.wellFormed /\ postBody.value.t = "obj"

isError(frame, code) ==
    /\ "error" \in frame.fields
    /\ "result" \notin frame.fields
    /\ frame.error.t = "error"
    /\ frame.error.code = code

knownMethods == {"s:initialize", "s:tools/list", "s:tools/call", "s:ping"}

\* C1: a message object whose jsonrpc is not exactly the string "2.0" (absent
\* included) is answered with the error -32600 carrying the message's id,
\* whatever its method and params, and no method handler runs.
C1_InvalidRequest ==
    (servedObject /\ postBody.value.jsonrpc # "s:2.0")
        => /\ Len(postOut) = 1
           /\ isError(postOut[1], InvalidRequest)
           /\ postOut[1].id = postBody.value.id
           /\ lastHandler = "none"
           /\ ~lastThrew

C1_Witness ==
    /\ servedObject
    /\ postBody.value.jsonrpc = "n:2"
    /\ postBody.value.method = "s:tools/call"
    /\ postBody.value.id = "n:1"
    /\ Len(postOut) = 1
    /\ isError(postOut[1], InvalidRequest)

\* C2: with jsonrpc "2.0", a method other than initialize, tools/list,
\* tools/call and ping is answered with the error -32601, and so is a
\* tools/call whose params.name is not a registered tool name: a returned
\* response, not a fault and not -32603.
C2_MethodNotFound ==
    (servedObject /\ postBody.value.jsonrpc = "s:2.0")
        => /\ postBody.value.method \notin knownMethods
                => (Len(postOut) = 1 /\ isError(postOut[1], MethodNotFound))
           /\ ( /\ postBody.value.method = "s:tools/call"
                /\ CanRead(postBody.value.params)
                /\ postBody.value.params.name \notin toolNames )
                => /\ Len(postOut) = 1
                   /\ isError(postOut[1], MethodNotFound)
                   /\ ~lastThrew

C2_Witness ==
    /\ servedObject
    /\ postBody.value.jsonrpc = "s:2.0"
    /\ postBody.value.method = "s:tools/call"
    /\ postBody.value.params.t = "obj"
    /\ postBody.value.params.name = "s:nope"
    /\ postBody.value.params.arguments = [t |-> "obj", keys |-> {}]
    /\ isError(postOut[1], MethodNotFound)

\* C3: a tools/call on a registered tool whose arguments mapping omits a
\* required parameter is answered with an error that lists exactly the
\* missing required names, in the declared order, never with a result.
C3_MissingParamsError ==
    ( /\ servedObject
      /\ postBody.value.jsonrpc = "s:2.0"
      /\ postBody.value.method = "s:tools/call"
      /\ postBody.value.params.t = "obj"
      /\ postBody.value.params.name \in toolNames
      /\ postBody.value.params.arguments.t = "obj"
      /\ missingParams(postBody.value.params.name,
                       postBody.value.params.arguments) # <<>> )
        => /\ Len(postOut) = 1
           /\ "error" \in postOut[1].fields
           /\ "result" \notin postOut[1].fields
           /\ postOut[1].error.detail
                = missingParams(postBody.value.params.name,
                                postBody.value.params.arguments)

\* C4: processJsonRpcMessage returns exactly one response for every decoded
\* JSON value, null included, and never lets an exception reach the POST
\* handler: a fault while handling gives the error -32603.
C4_NeverThrows ==
    (postSt # "idle" /\ postBody.wellFormed)
        => /\ ~lastThrew
           /\ Len(postOut) = 1
           /\ ~isError(postOut[1], ParseError)

\* C5: every response to a posted message carries the id of that message;
\* a response whose id is null in place of the message's id is produced
\* only when the body could not be decoded as JSON.
C5_IdEchoed ==
    postSt # "idle"
        => \A i \in 1..Len(postOut) :
              IF postBody.wellFormed
              THEN postOut[i].id = postBody.value.id
              ELSE postOut[i].id = JsNull

\* C6: every envelope written holds exactly one of the fields result and
\* error.
C6_ResultXorError ==
    \A i \in 1..Len(postOut) :
        ("result" \in postOut[i].fields) # ("error" \in postOut[i].fields)

C6_Witness ==
    /\ servedObject
    /\ postBody.value.method = "s:tools/call"
    /\ postBody.value.params.t = "undefined"
    /\ Len(postOut) = 1
    /\ isError(postOut[1], InternalError)
    /\ postOut[1].fields = {"jsonrpc", "id", "error"}

-----------------------------------------------------------------------------
(* Claims about the GET /sse connection, checked under SpecSSE *)

Initialized == "w:notification/initialized"

ToolsChanged == "w:notification/tools/list_changed"

Writes == {Initialized, ToolsChanged, "w:heartbeat"}

Teardowns == {"close", "error", "end"}

positions(c, events) == {i \in 1..Len(sse[c].log) : sse[c].log[i] \in events}

\* C7: on every connection the initialized frame is written before the
\* tools/list_changed frame, and each of the two at most once, in every
\* interleaving with heartbeat, deadline, close and error.
C7_InitializedFirst ==
    \A c \in Conns :
        /\ Cardinality(positions(c, {Initialized})) <= 1
        /\ Cardinality(positions(c, {ToolsChanged})) <= 1
        /\ \A j \in positions(c, {ToolsChanged}) :
              \E i \in positions(c, {Initialized}) : i < j

C7_Witness ==
    \E c \in Conns :
        /\ positions(c, {ToolsChanged}) # {}
        /\ positions(c, {"w:heartbeat"}) # {}
        /\ sse[c].closed
        /\ sse[c].dl = "fired"

\* C8: once the stream of a connection is torn down (close, error or the
\* deadline's end), no frame of any kind is written to it.
C8_NoWriteAfterClose ==
    \A c \in Conns :
        \A i \in positions(c, Teardowns) :
            \A j \in positions(c, Writes) : j < i

\* C9: the close event cancels the heartbeat interval and the deadline
\* timer together: after it neither of the two is armed.
C9_CloseCancelsBoth ==
    \A c \in Conns :
        sse[c].closed => (sse[c].hb # "armed" /\ sse[c].dl # "armed")

\* C10: of the triggers close, error and deadline the first tears the
\* connection down and the later ones do nothing: the heartbeat is cleared
\* at most once and the stream is ended at most once.
C10_TeardownOnce ==
    \A c \in Conns :
        /\ Cardinality(positions(c, {"clearInterval"})) <= 1
        /\ Cardinality(positions(c, {"end"})) <= 1

-----------------------------------------------------------------------------
(* More claims about the GET /sse connection *)

\* C11: a connection that is opened and sees neither a disconnect nor an
\* error is eventually closed by the server; when the deadline has fired
\* the heartbeat is cancelled and the stream is ended, whatever was written
\* before.
C11_ForceClosed ==
    /\ [](\A c \in Conns :
            sse[c].dl = "fired" => (sse[c].ended /\ sse[c].hb = "cleared"))
    /\ \A c \in Conns :
          (sse[c].st = "open")
              ~> (sse[c].ended \/ sse[c].closed \/ sse[c].errored)

C11_Witness ==
    \E c \in Conns :
        /\ sse[c].dl = "fired"
        /\ sse[c].ended
        /\ ~sse[c].closed
        /\ ~sse[c].errored
        /\ Cardinality(positions(c, {"w:heartbeat"})) = 2
        /\ positions(c, {ToolsChanged}) # {}

\* C12: a teardown trigger on one connection (close, error, deadline)
\* changes that connection only: the timers, the stream and the frames of
\* every other connection stay as they are.
C12_PerConnection ==
    [][\A c \in Conns :
          (ReqClose(c) \/ ReqError(c) \/ DeadlineTimer(c))
              => \A d \in Conns \ {c} : sse'[d] = sse[d]]_vars

C12_Witness ==
    /\ sse[1].dl = "fired"
    /\ sse[1].ended
    /\ sse[2].st = "open"
    /\ sse[2].hb = "armed"
    /\ sse[2].dl = "armed"
    /\ positions(2, {"w:heartbeat"}) # {}
    /\ positions(2, {ToolsChanged}) # {}

-----------------------------------------------------------------------------
(* More claims about POST /sse *)

\* C13: a body that is not JSON gets exactly one frame, the error -32700
\* with id null, and the stream is ended at once; the dispatcher is not
\* called.
C13_ParseError ==
    (postSt # "idle" /\ ~postBody.wellFormed)
        => /\ postSt = "ended"
           /\ Len(postOut) = 1
           /\ isError(postOut[1], ParseError)
           /\ postOut[1].id = JsNull
           /\ lastHandler = "none"
           /\ ~lastThrew

C13_Witness ==
    /\ postSt = "ended"
    /\ ~postBody.wellFormed
    /\ Len(postOut) = 1
    /\ isError(postOut[1], ParseError)

\* C14: a decodable message object gets exactly one frame, the
\* dispatcher's response to it, written before the stream is ended; the
\* stream is then ended by the 100 ms timer and nothing more is written.
C14_OneShot ==
    /\ [](servedObject
            => /\ Len(postOut) = 1
               /\ postOut[1] = stringify(processJsonRpcMessage(postBody.value).resp))
    /\ [][(postSt # "idle" /\ postSt' # "idle") => postOut' = postOut]_vars
    /\ (servedObject /\ postSt = "answered") ~> (postSt = "ended")

C14_Witness ==
    /\ servedObject
    /\ postSt = "ended"
    /\ postBody.value.method = "s:ping"
    /\ postBody.value.jsonrpc = "s:2.0"
    /\ Len(postOut) = 1
    /\ postOut[1].result.t = "empty"

-----------------------------------------------------------------------------
(* Claims about the REST execution path, checked under SpecRest *)

\* the keys of the parameters mapping of the request served (none when the
\* body carries no mapping)
givenKeys ==
    IF rest.body.wellFormed /\ rest.body.t = "obj" /\ rest.body.parameters.t = "obj"
    THEN rest.body.parameters.keys
    ELSE {}

\* the required names of the tool that are not keys of the mapping, in the
\* declared order
lacking ==
    LET notGiven(param) == param \notin givenKeys
    IN  SelectSeq(required(rest.name), notGiven)

\* C15: for a registered tool whose parameters mapping lacks a required
\* name as a key the answer is 400 with success false; the names reported
\* missing are exactly the required names absent as keys, in declaration
\* order, whatever the other keys and whatever the values of the keys
\* present; the tool logic is not executed.
C15_MissingParameters ==
    ( /\ rest.st = "done"
      /\ rest.body.wellFormed
      /\ rest.body.t = "obj"
      /\ rest.body.parameters.t # "prim"
      /\ rest.name \in toolNames
      /\ lacking # <<>> )
        => /\ rest.resp.status = BadRequest
           /\ ~rest.resp.success
           /\ rest.resp.error = "Missing required parameters"
           /\ rest.resp.missing = lacking
           /\ rest.resp.required_parameters = required(rest.name)
           /\ ~rest.resp.executed

C15_Witness ==
    /\ rest.st = "done"
    /\ rest.name = "s:retrieve"
    /\ rest.body.t = "obj"
    /\ rest.body.parameters = [t |-> "obj", keys |-> {"id", "limit"}, falsy |-> {"id"}]
    /\ rest.resp.status = BadRequest
    /\ rest.resp.missing = <<"type">>
    /\ rest.resp.required_parameters = <<"id", "type">>

\* C16: the status of the one response is the first matching outcome of:
\* body not decodable -> 400; tool name not registered -> 404; a required
\* parameter missing -> 400; tool logic throws -> 500; otherwise 200; and
\* success is true exactly when the status is 200.
C16_FirstMatch ==
    rest.st = "done"
        => /\ rest.resp.success <=> (rest.resp.status = OK)
           /\ rest.resp.status =
                IF ~rest.body.wellFormed THEN BadRequest
                ELSE IF rest.name \notin toolNames THEN NotFound
                ELSE IF lacking # <<>> THEN BadRequest
                ELSE IF executeToolLogic(rest.name, rest.body.parameters).threw
                THEN ServerError
                ELSE OK

\* C17: a tool-not-found answer carries the list of the valid tool names,
\* as the -32601 error of tools/call and as the 404 body of the REST path.
C17_NotFoundListsTools ==
    /\ ( /\ servedObject
         /\ postBody.value.jsonrpc = "s:2.0"
         /\ postBody.value.method = "s:tools/call"
         /\ CanRead(postBody.value.params)
         /\ postBody.value.params.name \notin toolNames )
          => /\ Len(postOut) = 1
             /\ isError(postOut[1], MethodNotFound)
             /\ \A i \in 1..Len(TOOLS) :
                   \E k \in 1..Len(postOut[1].error.detail) :
                       postOut[1].error.detail[k] = TOOLS[i]
    /\ (rest.st = "done" /\ rest.resp.status = NotFound)
          => rest.resp.available_tools = TOOLS

-----------------------------------------------------------------------------
(* Claims about GHLMCPServer, checked under SpecGHL *)

\* the names the handler groups register
registered == {allTools[i] : i \in 1..Len(allTools)}

\* the groups whose descriptor list holds the name
contributors(name) ==
    {i \in 1..Len(groups) : includes(getToolDefinitions(groups[i]), name)}

\* C18: a tool name contributed by more than one handler group is detected
\* when the aggregate list is built and the server fails at startup: the
\* server never serves requests while two groups contribute the same name.
C18_DuplicatesRefused ==
    ghl.st # "down" => \A name \in registered : Cardinality(contributors(name)) <= 1

occurrences(list, name) == Cardinality({i \in 1..Len(list) : list[i] = name})

\* C19: tools/list returns exactly one descriptor for every registered tool
\* and no other descriptor, in registration order, which is the concatenation
\* order of the groups' lists; the REST catalog returns the same names in the
\* same order.
C19_ListedOnce ==
    /\ ghl.st \in {"listed", "catalog"}
          => /\ ghl.resp.tools = allTools
             /\ \A i \in 1..Len(ghl.resp.tools) : ghl.resp.tools[i] \in registered
             /\ \A name \in registered : occurrences(ghl.resp.tools, name) = 1
    /\ (lastHandler = "tools/list" /\ Len(postOut) = 1)
          => /\ postOut[1].result.tools = TOOLS
             /\ \A name \in toolNames : occurrences(postOut[1].result.tools, name) = 1

\* the branches whose condition holds for the name of the call
matching == {i \in 1..Len(groups) : isTool(groups[i], ghl.req.name)}

\* the name of the call stands in the list of some predicate
known == \E i \in 1..Len(groups) : includes(ownNames(groups[i]), ghl.req.name)

Reverse(order) == [i \in 1..Len(order) |-> order[Len(order) + 1 - i]]

\* C20: the nineteen name lists are pairwise disjoint: for every name at most
\* one is*Tool predicate is true, a call invokes the executor of exactly one
\* group for a known name and of none for an unknown name, and the group is
\* the same when the branches are tried in the opposite order.
C20_OneExecutor ==
    ghl.st = "called"
        => /\ Cardinality(matching) <= 1
           /\ Len(ghl.invoked) = (IF known THEN 1 ELSE 0)
           /\ \A k \in 1..Len(ghl.invoked) :
                 includes(ownNames(ghl.invoked[k]), ghl.req.name)
           /\ firstMatch(Reverse(groups), 1, ghl.req.name) = route(ghl.req.name)

\* a call of a name of the last branch has run the executor of that group only
C20_Witness ==
    /\ ghl.st = "called"
    /\ ghl.req.name = invoicesToolNames[Len(invoicesToolNames)]
    /\ ghl.invoked = <<groups[Len(groups)]>>

\* C21: a call whose name matches no handler group is answered with the
\* error MethodNotFound (-32601), for every such name.
C21_UnknownIsMethodNotFound ==
    (ghl.st = "called" /\ ~known)
        => /\ ghl.resp.t = "error"
           /\ ghl.resp.code = MethodNotFound

\* the executor that was routed to threw
executorThrew ==
    /\ ghl.st = "called"
    /\ ghl.invoked # <<>>
    /\ ghl.req.outcome.kind \in {"throwError", "throwValue"}

\* the text ends with the pieces of the tail
endsWith(text, tail) ==
    /\ Len(text) >= Len(tail)
    /\ SubSeq(text, Len(text) - Len(tail) + 1, Len(text)) = tail

\* C22: whenever the routed executor throws, whatever the message text, the
\* call is answered with the error InternalError (-32603) carrying that text,
\* never with another code and never with a result.
C22_ThrowIsInternalError ==
    executorThrew
        => /\ ghl.resp.t = "error"
           /\ ghl.resp.code = InternalError
           /\ endsWith(ghl.resp.message, ghl.req.outcome.text)

-----------------------------------------------------------------------------
(* More claims about the dispatcher, checked under Spec *)

\* the single frame of the response is a success envelope with this result
isSuccess(frame, tag) ==
    /\ frame.fields \subseteq {"jsonrpc", "id", "result"}
    /\ {"jsonrpc", "result"} \subseteq frame.fields
    /\ frame.result.t = tag

\* C23: for every message with jsonrpc "2.0", initialize is answered with a
\* success envelope holding the protocol version, the capabilities and the
\* server identity whatever its params, absent params included, and ping with
\* a success envelope whose result is the empty object; the id is the
\* message's.
C23_InitializeAndPing ==
    (servedObject /\ postBody.value.jsonrpc = "s:2.0")
        => /\ postBody.value.method = "s:initialize"
                => /\ Len(postOut) = 1
                   /\ isSuccess(postOut[1], "initialize")
                   /\ postOut[1].id = postBody.value.id
                   /\ ~lastThrew
           /\ postBody.value.method = "s:ping"
                => /\ Len(postOut) = 1
                   /\ isSuccess(postOut[1], "empty")
                   /\ postOut[1].id = postBody.value.id
                   /\ ~lastThrew

\* a ping with an id and no params has been answered with the empty result
C23_Witness ==
    /\ servedObject
    /\ postBody.value.jsonrpc = "s:2.0"
    /\ postBody.value.method = "s:ping"
    /\ postBody.value.id = "n:1"
    /\ postBody.value.params.t = "undefined"
    /\ Len(postOut) = 1
    /\ isSuccess(postOut[1], "empty")
    /\ "id" \in postOut[1].fields

-----------------------------------------------------------------------------
(* The two transports side by side, checked under SpecBoth *)

\* a tools/call and a REST execution of the same name with the same arguments
sameInvocation ==
    /\ servedObject
    /\ postBody.value.jsonrpc = "s:2.0"
    /\ postBody.value.method = "s:tools/call"
    /\ postBody.value.params.t = "obj"
    /\ postBody.value.params.arguments.t = "obj"
    /\ Len(postOut) = 1
    /\ rest.st = "done"
    /\ rest.body.wellFormed
    /\ rest.body.t = "obj"
    /\ rest.body.parameters.t = "obj"
    /\ rest.name = postBody.value.params.name
    /\ rest.body.parameters.keys = postBody.value.params.arguments.keys

rpcClass ==
    CASE "result" \in postOut[1].fields /\ postOut[1].result.t = "content" -> "success"
      [] isError(postOut[1], MethodNotFound) -> "not found"
      [] isError(postOut[1], InternalError) -> "execution failure"
      [] OTHER -> "other"

restClass ==
    CASE rest.resp.status = OK -> "success"
      [] rest.resp.status = NotFound -> "not found"
      [] rest.resp.status = BadRequest
           /\ rest.resp.error = "Missing required parameters" -> "missing required parameters"
      [] rest.resp.status = ServerError -> "execution failure"
      [] OTHER -> "other"

\* C24: for every tool name and every argument mapping, tools/call and the
\* REST execution reach the same outcome class (not found, missing required
\* parameters, execution failure, success), and on success the text of the
\* content item equals the result value of the REST response.
C24_TransportsAgree ==
    sameInvocation
        => /\ rpcClass = restClass
           /\ rpcClass = "success" => postOut[1].result.text = rest.resp.result

-----------------------------------------------------------------------------
(* The dispatcher over a session, checked under SpecSession *)

\* the error code, the id and the shape of the result of a frame
shape(frame) ==
    [code |-> IF "error" \in frame.fields THEN frame.error.code ELSE 0,
     id |-> frame.id,
     result |-> IF "result" \in frame.fields THEN frame.result.t ELSE "absent"]

failure(code, id) == [code |-> code, id |-> id, result |-> "absent"]

success(id, tag) == [code |-> 0, id |-> id, result |-> tag]

\* what a body is answered with when it is the first of the process, as a
\* function of the body alone
firstAnswer(body) ==
    LET message == body.value
    IN  IF ~body.wellFormed \/ message.t = "null" THEN failure(ParseError, JsNull)
        ELSE IF message.jsonrpc # "s:2.0" THEN failure(InvalidRequest, message.id)
        ELSE CASE message.method = "s:initialize" -> success(message.id, "initialize")
               [] message.method = "s:tools/list" -> success(message.id, "tools")
               [] message.method = "s:ping" -> success(message.id, "empty")
               [] message.method = "s:tools/call" ->
                    IF ~CanRead(message.params) THEN failure(InternalError, message.id)
                    ELSE IF message.params.name \notin toolNames
                    THEN failure(MethodNotFound, message.id)
                    ELSE IF ~CanRead(message.params.arguments)
                    THEN failure(InternalError, message.id)
                    ELSE success(message.id, "content")
               [] OTHER -> failure(MethodNotFound, message.id)

\* C25: after any sequence of processed messages, a message is answered as
\* if it were the first (same code, id and result shape); tools/list,
\* tools/call and ping are served with no initialize before them, and
\* initialize may be repeated.
C25_Stateless ==
    postSt # "idle"
        => /\ Len(postOut) = 1
           /\ shape(postOut[1]) = firstAnswer(postBody)

\* an initialize answered after an initialize and a tools/call
C25_Witness ==
    /\ postSt # "idle"
    /\ {"initialize", "tools/call"} \subseteq postSeen
    /\ postBody.wellFormed
    /\ postBody.value.jsonrpc = "s:2.0"
    /\ postBody.value.method = "s:initialize"
    /\ Len(postOut) = 1
    /\ shape(postOut[1]) = success("n:1", "initialize")

-----------------------------------------------------------------------------
(* Claims about the classification of requests, checked under SpecHttp *)

\* the requests the handler serves: the six endpoints and the preflight
served ==
    \/ http.method = "OPTIONS"
    \/ http.method = "GET" /\ (isUrl(http.url, <<>>) \/ isUrl(http.url, <<"health">>))
    \/ http.method \in {"GET", "POST"} /\ isUrl(http.url, <<"sse">>)
    \/ http.method = "GET" /\ isUrl(http.url, genaiTools)
    \/ http.method = "POST" /\ startsWithGenaiTools(http.url)

\* C26: every request that is not one of the six endpoints or a preflight is
\* answered with exactly one response, of status 404, carrying the list of
\* the known endpoints, and no other status line is sent for it first; this
\* includes /sse with a method other than GET and POST, and /health and /
\* with a method other than GET.
C26_Default404 ==
    (http.st = "done" /\ ~served)
        => http.resp = HttpResponse(<<NotFound>>, "endpoints")

-----------------------------------------------------------------------------
(* Claims about failing writes, checked under SpecSSEFaulty *)

\* C27: a write failure on an SSE connection is logged and tears the
\* connection down, its timers cleared and its stream closed, and never
\* leaves the handler or a timer callback as an exception.
C27_WriteFailureTearsDown ==
    \A c \in Conns :
        (\E i \in 1..Len(sse[c].log) : sse[c].log[i] = "writeFailed")
            => /\ \A i \in 1..Len(sse[c].log) :
                     sse[c].log[i] = "writeFailed"
                        => i < Len(sse[c].log) /\ sse[c].log[i + 1] = "logged"
               /\ sse[c].notif # "armed"
               /\ sse[c].hb # "armed"
               /\ sse[c].dl # "armed"
               /\ sse[c].ended

-----------------------------------------------------------------------------
(* Claims about the SSE connections of GHLMCPServer, checked under SpecGhlSse *)

\* the session of connection c is attached: the Server sends on its transport
attached(c) == c \in ghlSse.open /\ ghlSse.transport = c

\* C28: the SSE connections of GHLMCPServer are independent: opening a second
\* connection while a first one is open leaves the session of the first
\* attached, in every interleaving, so every open connection is attached.
C28_ConnectionsIndependent == \A c \in ghlSse.open : attached(c)

-----------------------------------------------------------------------------
(* Claims about the array TOOLS, checked under SpecAll *)

\* C29: no request of any kind (initialize, tools/list, tools/call, ping, the
\* REST catalog, a REST execution, an SSE GET, malformed input) adds, removes,
\* reorders or changes a descriptor: the array is the one of the start, and
\* tools/list and the catalog return it, after any sequence of requests.
C29_RegistryImmutable ==
    /\ registry = TOOLS
    /\ (postSt # "idle" /\ lastHandler = "tools/list")
          => /\ Len(postOut) = 1
             /\ isSuccess(postOut[1], "tools")
             /\ postOut[1].result.tools = TOOLS
    /\ (http.st = "done" /\ http.resp.body = "tools") => http.resp.tools = TOOLS

\* tools/list and the catalog answered with the array of the start, a REST
\* execution served and an SSE connection run to its deadline
C29_Witness ==
    /\ postSt # "idle"
    /\ lastHandler = "tools/list"
    /\ postOut[1].result.tools = TOOLS
    /\ http.st = "done"
    /\ http.resp.body = "tools"
    /\ http.resp.tools = TOOLS
    /\ rest.st = "done"
    /\ rest.resp.status = OK
    /\ sse[1].ended

-----------------------------------------------------------------------------
(* Claims about the heartbeat, checked under SpecSSE *)

Heartbeats == {"w:heartbeat"}

Triggers == {"close", "error", "deadline"}

\* C30: while a connection is open a heartbeat comment is written once per
\* period of 25 s (the k-th when k periods have passed, so before the
\* deadline of a connection no trigger has touched), and once a teardown
\* trigger (close, error, deadline) has run no heartbeat comment is written
\* on the connection, whichever way the tick and the trigger interleave.
C30_HeartbeatUntilTeardown ==
    \A c \in Conns :
        /\ \A i \in positions(c, Triggers) : \A j \in positions(c, Heartbeats) : j < i
        /\ sse[c].hb = "armed"
              => sse[c].hbDue = (Cardinality(positions(c, Heartbeats)) + 1) * HeartbeatPeriod
        /\ \A i \in positions(c, {"deadline"}) :
              (\A k \in positions(c, {"close", "error"}) : i < k)
                  => Cardinality(positions(c, Heartbeats)) >= (Deadline - 1) \div HeartbeatPeriod

\* a heartbeat was written, then the client closed, and the deadline came
\* with no heartbeat in between
C30_Witness ==
    \E c \in Conns :
        /\ sse[c].closed
        /\ sse[c].dl = "fired"
        /\ Cardinality(positions(c, Heartbeats)) = 1
        /\ \A i \in positions(c, {"close"}) :
              /\ \E j \in positions(c, Heartbeats) : j < i
              /\ \E k \in positions(c, {"deadline"}) : i < k

-----------------------------------------------------------------------------
(* Last claims about POST /sse, checked under Spec *)

\* C31: the parse-error frame -32700 is produced only for a body that is not
\* well-formed JSON: a body that decodes (to an object, to null, to a number
\* or a string) is answered with the dispatcher's response, never -32700.
C31_ParseErrorOnlyForBadJson ==
    (postSt # "idle" /\ postBody.wellFormed)
        => /\ Len(postOut) = 1
           /\ ~isError(postOut[1], ParseError)

-----------------------------------------------------------------------------
(* The advertised and the executable tools, checked under SpecTools *)

\* a tools/call that names a tool has been answered
calledByName ==
    /\ servedObject
    /\ postBody.value.jsonrpc = "s:2.0"
    /\ postBody.value.method = "s:tools/call"
    /\ postBody.value.params.t = "obj"
    /\ Len(postOut) = 1

\* a REST execution whose body is a JSON object has been answered
executedByName == rest.st = "done" /\ rest.body.wellFormed /\ rest.body.t = "obj"

\* C32: the advertised and the executable tool sets coincide: the names
\* tools/list returns are the names tools/call does not answer with -32601,
\* and the names the REST execution answers with neither 404 nor 500.
C32_AdvertisedIsExecutable ==
    /\ (postSt # "idle" /\ lastHandler = "tools/list")
          => /\ Len(postOut) = 1
             /\ isSuccess(postOut[1], "tools")
             /\ {postOut[1].result.tools[i] : i \in 1..Len(postOut[1].result.tools)}
                   = toolNames
    /\ calledByName
          => (postBody.value.params.name \in toolNames
                 <=> ~isError(postOut[1], MethodNotFound))
    /\ executedByName
          => (rest.name \in toolNames <=> rest.resp.status \notin {NotFound, ServerError})

\* retrieve, which tools/list advertises, run over both transports
C32_Witness ==
    /\ calledByName
    /\ postBody.value.params.name = "s:retrieve"
    /\ isSuccess(postOut[1], "content")
    /\ executedByName
    /\ rest.name = "s:retrieve"
    /\ rest.resp.status = OK

-----------------------------------------------------------------------------
(* POST /sse next to open GET /sse connections, checked under SpecAll *)

\* C33: the response to a message POSTed to /sse is written only to that
\* POST's own response stream: the stream of an SSE GET connection receives
\* only the two handshake notifications and heartbeat comments, and no step
\* that writes a POST's frame touches a connection, in every interleaving of
\* GET and POST requests.
C33_PostAnswersOwnStream ==
    /\ [](\A c \in Conns : \A i \in 1..Len(sse[c].log) :
             sse[c].log[i] \in Writes \cup Triggers \cup Teardowns \cup {"clearInterval"})
    /\ [](postSt # "idle" => Len(postOut) = 1)
    /\ [][postOut' # postOut => sse' = sse]_vars

\* a POST answered on its own stream while connection 1 is open, past its
\* handshake and its first heartbeat
C33_Witness ==
    /\ sse[1].st = "open"
    /\ positions(1, {ToolsChanged}) # {}
    /\ positions(1, Heartbeats) # {}
    /\ postSt = "answered"
    /\ Len(postOut) = 1
    /\ sse[1].log[Len(sse[1].log)] = "w:heartbeat"

=============================================================================
